---- MODULE Spec2Model ----
(***************************************************************************)
(* A model of fasttrain's Trainer (src/fasttrain/train/trainer.py) and of  *)
(* its History (src/history.py): the train() call, the epoch/batch loop of *)
(* _training_loop, _train and _validate, the dispatch of the lifecycle     *)
(* hooks to the registered callbacks, the stop flag, and the folding of    *)
(* the running statistics of a phase into the History of the run.          *)
(*                                                                         *)
(* Python floats are modelled as exact fractions in lowest terms, a dict   *)
(* as a function from its keys, a DataLoader by its number of batches.     *)
(* User code (compute_loss, eval_metrics, the callbacks' hooks) is a       *)
(* nondeterministic choice over small sets of outcomes.                    *)
(***************************************************************************)
EXTENDS Integers, Sequences, FiniteSets, TLC

VARIABLES
    env,                \* what the Trainer subclass and the machine provide
    pending,            \* the train() calls still to be made: their arguments
    call,               \* the arguments and locals of the current train() call, and
                        \* (after) how the call before it ended
    device,             \* Trainer._device
    model_device,       \* the device the model was moved to by model.to()
    is_training,        \* Trainer._is_training, the stop flag
    callbacks,          \* Trainer._callbacks
    last_logs,          \* Trainer._last_on_epoch_end_logs
    verbose,            \* Trainer._verbose
    in_notebook,        \* Trainer._in_notebook
    pc,                 \* where the call is: the hook being dispatched, or idle/returned/raised
    cbIdx,              \* the callback that receives the current hook next (1-based)
    current_epoch_num,  \* local of _training_loop
    batch_num,          \* local of _train / _validate
    phase,              \* the History local to _train / _validate
    metrics,            \* local of _training_loop: the epoch's metrics
    history,            \* the History local to _training_loop
    result,             \* what train() returned
    model_mode,         \* the mode model.train() / model.eval() last set
    stdout,             \* the lines printed by Trainer._log
    trace,              \* every hook dispatched and every batch computed, in order
    received,           \* the callbacks (by position) that received the current hook, in order
    stopIdx,            \* position in trace of the hook in which stop was first requested
    exc,                \* the exception that ended train(), "none" when there is none
    files,              \* the file system: what each path holds
    io                  \* the History at hand and its last to_json / from_json call

vars == <<env, pending, call, device, model_device, is_training, callbacks, last_logs,
          verbose, in_notebook, pc, cbIdx, current_epoch_num, batch_num, phase,
          metrics, history, result, model_mode, stdout, trace, received, stopIdx, exc,
          files, io>>

-----------------------------------------------------------------------------
(* Bounds of the model. *)

MaxEpochs == 3
MaxBatches == 2
MaxValBatches == 1
MaxLoss == 3
BatchSize == 2

-----------------------------------------------------------------------------
(* Numbers.  A float is a fraction num/den in lowest terms; an int an      *)
(* integer carrying the tag "int".                                          *)

RECURSIVE GCD(_, _)
GCD(a, b) == IF b = 0 THEN a ELSE GCD(b, a % b)

Float(n, d) ==
    LET g == GCD(n, d)
    IN  [t |-> "float", num |-> n \div g, den |-> d \div g]

IntV(n) == [t |-> "int", num |-> n, den |-> 1]

EmptyMap == [k \in {} |-> Float(0, 1)]

ToFloat(v) == IF v.t = "float" THEN v ELSE Float(v.num, 1)

FloatAdd(a, b) == Float(a.num * b.den + b.num * a.den, a.den * b.den)

RECURSIVE Sum(_)
Sum(v) == IF v = <<>> THEN IntV(0) ELSE FloatAdd(v[1], Sum(Tail(v)))

TrueDiv(a, n) == Float(a.num, a.den * n)

-----------------------------------------------------------------------------
(* History (src/history.py). *)

(* an update that keeps only the newest value of a key *)
UpdateOverwrite(h, stats) ==
    [k \in DOMAIN h \cup DOMAIN stats |->
        IF k \in DOMAIN stats THEN <<ToFloat(stats[k])>> ELSE h[k]]

(* update, lines 33-37 *)
Update(h, stats) ==
    [k \in DOMAIN h \cup DOMAIN stats |->
        IF k \in DOMAIN stats
        THEN Append(IF k \in DOMAIN h THEN h[k] ELSE <<>>, ToFloat(stats[k]))
        ELSE h[k]]

(* an average that reports a loss of 0 for a phase without batches *)
AverageOrZero(h) ==
    [k \in DOMAIN h \cup {"loss"} |->
        IF k \in DOMAIN h THEN TrueDiv(Sum(h[k]), Len(h[k])) ELSE Float(0, 1)]

(* average, lines 50-55 *)
Average(h) == [k \in DOMAIN h |-> TrueDiv(Sum(h[k]), Len(h[k]))]

(* dict helpers: d | other, d[k] = v *)
Merge(d, other) ==
    [k \in DOMAIN d \cup DOMAIN other |-> IF k \in DOMAIN other THEN other[k] ELSE d[k]]

SetItem(d, k, v) == [x \in DOMAIN d \cup {k} |-> IF x = k THEN v ELSE d[x]]

ValKey(k) == "val_" \o k

StartsWithVal(k) == Len(k) >= 4 /\ SubSeq(k, 1, 4) = "val_"

-----------------------------------------------------------------------------
(* Data.  A DataLoader is known by its number of batches, a Dataset by its *)
(* number of samples.                                                       *)

NoData == [kind |-> "None", n |-> 0]
DataLoader(n) == [kind |-> "DataLoader", n |-> n]
Dataset(n) == [kind |-> "Dataset", n |-> n]

GetDataLoader(data, batch_size) ==
    IF data.kind = "None" \/ data.kind = "DataLoader"
    THEN data
    ELSE DataLoader((data.n + batch_size - 1) \div batch_size)

(* What the user's code computes for the batch batch_num of epoch e: the   *)
(* loss of compute_loss (loss.item() is a float) and the mapping of         *)
(* eval_metrics (None when the subclass defines no metric).  The losses of *)
(* a run are constant (env.step = 0) or change from batch to batch.         *)
LossValue(e, b, training) ==
    Float(1 + ((env.seed + env.step * (e + b + (IF training THEN 0 ELSE 1))) % MaxLoss), 1)

EvalMetrics(e, b) ==
    [none |-> env.metric_keys = {},
     map  |-> [k \in env.metric_keys |-> IntV(3 + ((env.seed + b) % MaxLoss))]]

OrEmpty(r) == IF r.none \/ DOMAIN r.map = {} THEN EmptyMap ELSE r.map

-----------------------------------------------------------------------------
(* The events of trace. *)

Hooks == {"train_begin", "epoch_begin", "train_batch_begin", "train_batch_end",
          "validation_begin", "validation_batch_begin", "validation_batch_end",
          "validation_end", "epoch_end", "train_end"}

HookEvent(name, e, b, logs) ==
    [ev |-> name, epoch |-> e, batch |-> b, logs |-> logs, ops |-> <<>>]

(* a _compute_loss that trains on every batch it is given *)
ComputeLossOpsAlwaysTrain(training) ==
    <<"predict", "compute_loss", "backward", "step", "zero_grad">>

(* _compute_loss, lines 255-263: what runs on the batch, in order *)
ComputeLossOps(training) ==
    <<"predict", "compute_loss">>
        \o (IF training THEN <<"backward", "step", "zero_grad">> ELSE <<>>)

ComputeEvent(e, b, training) ==
    [ev |-> "compute", epoch |-> e, batch |-> b, logs |-> EmptyMap,
     ops |-> ComputeLossOps(training)]

-----------------------------------------------------------------------------
(* The frame of _training_loop, _train and _validate as one record, so     *)
(* that the steps of the loop compose.                                      *)

Frame ==
    [pc |-> pc, cbIdx |-> cbIdx, trace |-> trace, is_training |-> is_training,
     current_epoch_num |-> current_epoch_num, batch_num |-> batch_num,
     phase |-> phase, metrics |-> metrics, history |-> history,
     last_logs |-> last_logs, model_mode |-> model_mode, received |-> received]

SetFrame(f) ==
    /\ pc' = f.pc
    /\ cbIdx' = f.cbIdx
    /\ trace' = f.trace
    /\ is_training' = f.is_training
    /\ current_epoch_num' = f.current_epoch_num
    /\ batch_num' = f.batch_num
    /\ phase' = f.phase
    /\ metrics' = f.metrics
    /\ history' = f.history
    /\ last_logs' = f.last_logs
    /\ model_mode' = f.model_mode
    /\ received' = f.received

(* The _on_<hook> dispatchers, lines 144-183: the hook goes to the         *)
(* callbacks in list order, starting with the first.                        *)
Dispatch(f, name, b, logs) ==
    [f EXCEPT !.pc = name, !.cbIdx = 1, !.received = <<>>,
              !.trace = Append(@, HookEvent(name, f.current_epoch_num, b, logs))]

(* a loop exit that dispatches no train_end *)
ExitLoopNoTrainEnd(f) ==
    [f EXCEPT !.is_training = FALSE, !.pc = "train_end", !.cbIdx = Len(callbacks) + 1,
              !.received = <<>>]

(* lines 336-337: _stop_training(), then _on_train_end() *)
ExitLoop(f) ==
    Dispatch([f EXCEPT !.is_training = FALSE], "train_end", -1, f.last_logs)

(* an epoch fold that records nothing once stop was requested *)
EpochFoldUnlessStopped(f) ==
    Dispatch([f EXCEPT !.history = IF f.is_training THEN Update(@, f.metrics) ELSE @,
                       !.last_logs = f.metrics],
             "epoch_end", -1, f.metrics)

(* an epoch fold that does not keep the metrics for train_end *)
EpochFoldNoLastLogs(f) ==
    Dispatch([f EXCEPT !.history = Update(@, f.metrics)], "epoch_end", -1, f.metrics)

(* lines 328-330: history.update(metrics); _on_epoch_end sets              *)
(* _last_on_epoch_end_logs and dispatches epoch_end                         *)
EpochFold(f) ==
    Dispatch([f EXCEPT !.history = Update(@, f.metrics), !.last_logs = f.metrics],
             "epoch_end", -1, f.metrics)

(* lines 292-307: the enumerate loop of _validate at batch b; at its end   *)
(* line 327 merges the average of the phase into the epoch's metrics        *)
ValidateIter(f, b) ==
    IF b < call.val_dl.n
    THEN Dispatch([f EXCEPT !.batch_num = b], "validation_batch_begin", b, EmptyMap)
    ELSE EpochFold([f EXCEPT !.metrics = Merge(@, Average(f.phase))])

ValidateBreak(f) ==
    EpochFold([f EXCEPT !.metrics = Merge(@, Average(f.phase))])

(* lines 284 and 325-328: _train returns the average of its phase; then    *)
(* _validate starts when there is validation data                           *)
TrainReturn(f) ==
    LET g == [f EXCEPT !.metrics = Average(f.phase)]
    IN  IF call.val_dl.kind # "None"
        THEN ValidateIter([g EXCEPT !.model_mode = "eval", !.phase = EmptyMap], 0)
        ELSE EpochFold(g)

(* an enumerate loop that leaves out the last batch *)
TrainIterShort(f, b) ==
    IF b + 1 < call.train_dl.n
    THEN Dispatch([f EXCEPT !.batch_num = b], "train_batch_begin", b, EmptyMap)
    ELSE TrainReturn(f)

(* lines 270-284: the enumerate loop of _train at batch b *)
TrainIter(f, b) ==
    IF b < call.train_dl.n
    THEN Dispatch([f EXCEPT !.batch_num = b], "train_batch_begin", b, EmptyMap)
    ELSE TrainReturn(f)

(* a while test that counts the epochs from 0 *)
WhileTestFromZero(f) ==
    IF f.is_training /\ f.current_epoch_num - 1 <= call.num_epochs
    THEN Dispatch(f, "epoch_begin", -1, EmptyMap)
    ELSE ExitLoop(f)

(* line 320: the test of the while loop *)
WhileTest(f) ==
    IF f.is_training /\ f.current_epoch_num <= call.num_epochs
    THEN Dispatch(f, "epoch_begin", -1, EmptyMap)
    ELSE ExitLoop(f)

DispatchDone == pc \in Hooks /\ cbIdx > Len(callbacks)


-----------------------------------------------------------------------------
(* Devices.  The device argument is a str; find_suitable_device returns a  *)
(* torch.device.                                                            *)

StrArg(s) == [py |-> "str", s |-> s, type |-> ""]
TorchDevice(type) == [py |-> "device", s |-> "", type |-> type]
NoDevice == [py |-> "None", s |-> "", type |-> ""]

Str(v) == IF v.py = "str" THEN v.s ELSE v.type

FindSuitableDevice(desired) ==
    LET best == IF env.cuda THEN "cuda" ELSE "cpu"
    IN  IF Str(desired) = "auto" THEN TorchDevice(best)
        ELSE IF Str(desired) = "cuda" /\ ~env.cuda THEN TorchDevice(best)
        ELSE TorchDevice(Str(desired))

(* _log, lines 185-195 *)
Log(out, message) ==
    Append(out, [message |-> message,
                 by |-> IF is_training THEN "tqdm.write" ELSE "print"])

(* _setup_callbacks, lines 216-241: the callbacks appended to the list and *)
(* the lines logged.  isinstance is asked of user_callbacks, the whole      *)
(* sequence, which is a list and never a Tqdm.                              *)
ProgressBar(nb) == [kind |-> "Tqdm", in_notebook |-> nb, wired |-> TRUE]

UserCallback(kind) == [kind |-> kind, in_notebook |-> "None", wired |-> TRUE]

RECURSIVE RegisterUser(_, _, _)
RegisterUser(cbs, user_callbacks, vb) ==
    IF user_callbacks = <<>> THEN cbs
    ELSE LET skip == vb /\ FALSE
         IN  RegisterUser(IF skip THEN cbs
                          ELSE Append(cbs, UserCallback(Head(user_callbacks))),
                          Tail(user_callbacks), vb)

ResolveNotebook(vb, nb) ==
    IF vb /\ nb = "None"
    THEN (IF env.notebook THEN "notebook" ELSE "script")
    ELSE nb

SetupCallbacks(cbs, user_callbacks, vb, nb) ==
    RegisterUser(IF vb THEN Append(cbs, ProgressBar(ResolveNotebook(vb, nb))) ELSE cbs,
                 user_callbacks, vb)

-----------------------------------------------------------------------------
(* train(), lines 380-403, up to the dispatch of train_begin in            *)
(* _training_loop (lines 314-317).                                          *)

(* a test that takes "auto" for the name of a device *)
UnavailableEvenAuto(desired, available) == Str(available) # Str(desired)

(* line 381: the requested device is not the one resolved *)
Unavailable(desired, available) ==
    Str(desired) # "auto" /\ Str(available) # Str(desired)

Train ==
    /\ pc \in {"idle", "returned", "raised"}
    /\ pending # <<>>
    /\ LET a == Head(pending)
           available_device == FindSuitableDevice(a.device)
           unavailable == Unavailable(a.device, available_device)
           out1 == Log(stdout, IF unavailable THEN "not available, using" ELSE "Using")
           nb == ResolveNotebook(a.verbose, a.in_notebook)
           out2 == IF a.verbose THEN Log(out1, "Running as a " \o nb) ELSE out1
           train_dl == GetDataLoader(a.train_data, a.batch_size)
           val_dl == GetDataLoader(a.val_data, a.batch_size)
       IN  /\ pending' = Tail(pending)
           /\ IF unavailable /\ a.force_device
              THEN /\ pc' = "raised"
                   /\ exc' = "RuntimeError"
                   /\ UNCHANGED <<call, device, model_device, is_training, callbacks,
                                  last_logs, verbose, in_notebook, cbIdx,
                                  current_epoch_num, batch_num, phase, metrics, history,
                                  result, model_mode, stdout, trace, received, stopIdx>>
              ELSE /\ device' = available_device
                   /\ model_device' = available_device
                   /\ verbose' = a.verbose
                   /\ in_notebook' = nb
                   /\ stdout' = out2
                   /\ callbacks' = SetupCallbacks(callbacks, a.callbacks, a.verbose,
                                                  a.in_notebook)
                   /\ call' = [num_epochs |-> a.num_epochs, train_dl |-> train_dl,
                               val_dl |-> val_dl,
                               training_args |-> [num_epochs |-> a.num_epochs,
                                                  num_batches |-> train_dl.n],
                               callbacks |-> a.callbacks, after |-> pc]
                   /\ history' = EmptyMap
                   /\ is_training' = TRUE
                   /\ pc' = "train_begin"
                   /\ cbIdx' = 1
                   /\ received' = <<>>
                   /\ trace' = <<HookEvent("train_begin", 0, -1, EmptyMap)>>
                   /\ current_epoch_num' = 0
                   /\ batch_num' = 0
                   /\ phase' = EmptyMap
                   /\ metrics' = EmptyMap
                   /\ result' = [returned |-> FALSE, history |-> EmptyMap]
                   /\ stopIdx' = 0
                   /\ exc' = "none"
                   /\ UNCHANGED <<last_logs, model_mode>>
    /\ UNCHANGED <<env, files, io>>

-----------------------------------------------------------------------------
(* A callback receives the current hook (the body of the for loop of a     *)
(* dispatcher): it returns, or calls _stop_training() (lines 138-142) and  *)
(* returns, or raises.                                                      *)

Delivering == pc \in Hooks /\ cbIdx <= Len(callbacks)

CallbackReturn ==
    /\ Delivering
    /\ received' = Append(received, cbIdx)
    /\ cbIdx' = cbIdx + 1
    /\ UNCHANGED <<env, files, io, pending, call, device, model_device, is_training, callbacks,
                   last_logs, verbose, in_notebook, pc, current_epoch_num, batch_num,
                   phase, metrics, history, result, model_mode, stdout, trace,
                   stopIdx, exc>>

(* a dispatch that ends at the callback that requests stop *)
CallbackStopBreaks ==
    /\ Delivering
    /\ is_training' = FALSE
    /\ stopIdx' = IF stopIdx = 0 THEN Len(trace) ELSE stopIdx
    /\ received' = Append(received, cbIdx)
    /\ cbIdx' = Len(callbacks) + 1
    /\ UNCHANGED <<env, files, io, pending, call, device, model_device, callbacks,
                   last_logs, verbose, in_notebook, pc, current_epoch_num, batch_num,
                   phase, metrics, history, result, model_mode, stdout, trace, exc>>

CallbackStop ==
    /\ Delivering
    /\ is_training' = FALSE
    /\ stopIdx' = IF stopIdx = 0 THEN Len(trace) ELSE stopIdx
    /\ received' = Append(received, cbIdx)
    /\ cbIdx' = cbIdx + 1
    /\ UNCHANGED <<env, files, io, pending, call, device, model_device, callbacks,
                   last_logs, verbose, in_notebook, pc, current_epoch_num, batch_num,
                   phase, metrics, history, result, model_mode, stdout, trace, exc>>

(* a dispatcher that catches what the callback raises and goes on *)
CallbackRaiseCaught ==
    /\ Delivering
    /\ received' = Append(received, cbIdx)
    /\ cbIdx' = cbIdx + 1
    /\ exc' = "CallbackError"
    /\ UNCHANGED <<env, files, io, pending, call, device, model_device, is_training, callbacks,
                   last_logs, verbose, in_notebook, pc, current_epoch_num, batch_num,
                   phase, metrics, history, result, model_mode, stdout, trace, stopIdx>>

CallbackRaise ==
    /\ Delivering
    /\ received' = Append(received, cbIdx)
    /\ pc' = "raised"
    /\ exc' = "CallbackError"
    /\ UNCHANGED <<env, files, io, pending, call, device, model_device, is_training, callbacks,
                   last_logs, verbose, in_notebook, cbIdx, current_epoch_num, batch_num,
                   phase, metrics, history, result, model_mode, stdout, trace, stopIdx>>

-----------------------------------------------------------------------------
(* The steps of _training_loop, _train and _validate: what the code does   *)
(* after the dispatch of a hook, up to the dispatch of the next one.       *)

restVars == <<env, files, io, pending, call, device, model_device, callbacks, verbose,
              in_notebook, result, stdout, stopIdx, exc>>

(* lines 318-321 *)
AfterTrainBegin ==
    /\ DispatchDone /\ pc = "train_begin"
    /\ SetFrame(WhileTest([Frame EXCEPT !.current_epoch_num = 1]))
    /\ UNCHANGED restVars

(* a training phase that goes on with the statistics of the phase before *)
AfterEpochBeginKeepPhase ==
    /\ DispatchDone /\ pc = "epoch_begin"
    /\ SetFrame(IF ~is_training
                THEN ExitLoop(Frame)
                ELSE TrainIter([Frame EXCEPT !.model_mode = "train"], 0))
    /\ UNCHANGED restVars

(* lines 322-325 and 266-271 *)
AfterEpochBegin ==
    /\ DispatchDone /\ pc = "epoch_begin"
    /\ SetFrame(IF ~is_training
                THEN ExitLoop(Frame)
                ELSE TrainIter([Frame EXCEPT !.model_mode = "train",
                                             !.phase = EmptyMap], 0))
    /\ UNCHANGED restVars

(* lines 275-278 *)
TrainBatchMetrics(e, b) ==
    SetItem(OrEmpty(EvalMetrics(e, b)), "loss", LossValue(e, b, TRUE))

(* lines 272-280 *)
AfterTrainBatchBegin ==
    /\ DispatchDone /\ pc = "train_batch_begin"
    /\ SetFrame(
         IF ~is_training
         THEN TrainReturn(Frame)
         ELSE LET ph == Update(phase, TrainBatchMetrics(current_epoch_num, batch_num))
              IN  Dispatch([Frame EXCEPT
                               !.phase = ph,
                               !.trace = Append(@, ComputeEvent(current_epoch_num,
                                                                batch_num, TRUE))],
                           "train_batch_end", batch_num, Average(ph)))
    /\ UNCHANGED restVars

(* a loop that does not check the stop flag after train_batch_end *)
AfterTrainBatchEndNoCheck ==
    /\ DispatchDone /\ pc = "train_batch_end"
    /\ SetFrame(TrainIter(Frame, batch_num + 1))
    /\ UNCHANGED restVars

(* lines 281-284 and 270-271 *)
AfterTrainBatchEnd ==
    /\ DispatchDone /\ pc = "train_batch_end"
    /\ SetFrame(IF ~is_training
                THEN TrainReturn(Frame)
                ELSE TrainIter(Frame, batch_num + 1))
    /\ UNCHANGED restVars

(* validation metrics that keep the names of the training metrics *)
ValNotPrefixed(m) == m

(* lines 297-300 *)
ValPrefixed(m) ==
    [k2 \in {ValKey(k) : k \in DOMAIN m} |->
        m[CHOOSE k \in DOMAIN m : ValKey(k) = k2]]

ValidationBatchMetrics(e, b) ==
    SetItem(ValPrefixed(OrEmpty(EvalMetrics(e, b))), "val_loss", LossValue(e, b, FALSE))

(* lines 294-303 *)
AfterValidationBatchBegin ==
    /\ DispatchDone /\ pc = "validation_batch_begin"
    /\ SetFrame(
         IF ~is_training
         THEN ValidateBreak(Frame)
         ELSE LET ph == Update(phase, ValidationBatchMetrics(current_epoch_num, batch_num))
              IN  Dispatch([Frame EXCEPT
                               !.phase = ph,
                               !.trace = Append(@, ComputeEvent(current_epoch_num,
                                                                batch_num, FALSE))],
                           "validation_batch_end", batch_num, Average(ph)))
    /\ UNCHANGED restVars

(* lines 304-307 and 292-293 *)
AfterValidationBatchEnd ==
    /\ DispatchDone /\ pc = "validation_batch_end"
    /\ SetFrame(IF ~is_training
                THEN ValidateBreak(Frame)
                ELSE ValidateIter(Frame, batch_num + 1))
    /\ UNCHANGED restVars

(* lines 331-334 and 320 *)
AfterEpochEnd ==
    /\ DispatchDone /\ pc = "epoch_end"
    /\ SetFrame(IF ~is_training
                THEN ExitLoop(Frame)
                ELSE WhileTest([Frame EXCEPT !.current_epoch_num = @ + 1]))
    /\ UNCHANGED restVars

(* lines 339 and 403-404 *)
AfterTrainEnd ==
    /\ DispatchDone /\ pc = "train_end"
    /\ pc' = "returned"
    /\ result' = [returned |-> TRUE, history |-> history]
    /\ UNCHANGED <<env, files, io, pending, call, device, model_device, is_training, callbacks,
                   last_logs, verbose, in_notebook, cbIdx, current_epoch_num, batch_num,
                   phase, metrics, history, model_mode, stdout, trace, received,
                   stopIdx, exc>>

-----------------------------------------------------------------------------
(* History.to_json and History.from_json (src/history.py, lines 12-31).    *)
(* A file holds a JSON document or is absent; the document of a History is *)
(* an object of arrays of number literals.                                  *)

StartsWith(s, prefix) == Len(s) >= Len(prefix) /\ SubSeq(s, 1, Len(prefix)) = prefix

EndsWith(s, suffix) ==
    Len(s) >= Len(suffix) /\ SubSeq(s, Len(s) - Len(suffix) + 1, Len(s)) = suffix

(* _add_ext, lines 12-15 *)
AddExt(file_name, ext) ==
    LET e == IF ~StartsWith(ext, ".") THEN "." \o ext ELSE ext
    IN  IF EndsWith(file_name, e) THEN file_name ELSE file_name \o e

Absent == [kind |-> "absent", doc |-> EmptyMap]

(* json.dump writes a float with its repr and an int with its digits;      *)
(* json.load reads a literal with a point as a float, one without as an int *)
NumberLiteral(v) == [point |-> v.t = "float", num |-> v.num, den |-> v.den]

ParseNumber(l) == IF l.point THEN Float(l.num, l.den) ELSE IntV(l.num)

JsonDump(h) ==
    [kind |-> "json",
     doc  |-> [k \in DOMAIN h |-> [i \in 1..Len(h[k]) |-> NumberLiteral(h[k][i])]]]

JsonLoad(f) ==
    [k \in DOMAIN f.doc |-> [i \in 1..Len(f.doc[k]) |-> ParseNumber(f.doc[k][i])]]

Paths == {"h.json", "run.json"}
FileNames == {"h", "h.json", "run"}

NoFiles == [p \in Paths |-> Absent]

NoIo == [self |-> EmptyMap, op |-> "none", name |-> "", exc |-> "none",
         loaded |-> EmptyMap, saved |-> ""]

trainerVars == <<env, pending, call, device, model_device, is_training, callbacks,
                 last_logs, verbose, in_notebook, pc, cbIdx, current_epoch_num,
                 batch_num, phase, metrics, history, result, model_mode, stdout, trace,
                 received, stopIdx, exc>>

(* to_json, lines 29-31: open(..., "r") finds no file, or opens it for     *)
(* reading; then the argument self.history of json.dump is evaluated, and   *)
(* a History has no attribute of that name.                                 *)
ToJson(file_name) ==
    /\ LET path == AddExt(file_name, "json")
       IN  io' = [io EXCEPT !.op = "to_json", !.name = file_name, !.saved = path,
                            !.exc = IF files[path].kind = "absent"
                                    THEN "FileNotFoundError"
                                    ELSE "AttributeError"]
    /\ UNCHANGED files
    /\ UNCHANGED trainerVars

(* from_json, lines 23-27 *)
FromJson(file_name) ==
    /\ LET path == AddExt(file_name, "json")
       IN  io' = IF files[path].kind = "absent"
                 THEN [io EXCEPT !.op = "from_json", !.name = file_name,
                                 !.exc = "FileNotFoundError"]
                 ELSE [io EXCEPT !.op = "from_json", !.name = file_name,
                                 !.exc = "none", !.loaded = JsonLoad(files[path])]
    /\ UNCHANGED files
    /\ UNCHANGED trainerVars

-----------------------------------------------------------------------------
(* The Trainer after __init__ (lines 38-45), and the calls to make. *)

Args(ne, td, vd, vb, cbs) ==
    [train_data |-> td, num_epochs |-> ne, verbose |-> vb, device |-> StrArg("auto"),
     force_device |-> TRUE, val_data |-> vd, batch_size |-> BatchSize,
     callbacks |-> cbs, in_notebook |-> "None"]

TrainData == {DataLoader(n) : n \in 0..MaxBatches} \cup {Dataset(BatchSize * MaxBatches - 1)}
ValData == {NoData} \cup {DataLoader(n) : n \in 0..MaxValBatches}
MetricKeySets == {{}, {"acc"}, {"val_acc"}, {"loss"}}

Envs == [cuda : {FALSE}, notebook : {FALSE}, seed : {0}, step : {0},
         metric_keys : MetricKeySets]
        \cup
        [cuda : {FALSE}, notebook : {FALSE}, seed : {0, 1}, step : {1},
         metric_keys : MetricKeySets]

CallbackSetups ==
    {<<FALSE, <<>> >>, <<TRUE, <<>> >>, <<FALSE, <<"User">> >>, <<TRUE, <<"User">> >>,
     <<FALSE, <<"User", "User">> >>, <<TRUE, <<"Tqdm">> >>}

ArgSpace ==
    {Args(ne, td, vd, c[1], c[2]) :
        ne \in (-1)..MaxEpochs, td \in TrainData, vd \in ValData, c \in CallbackSetups}

InitTrainer ==
    /\ device = NoDevice
    /\ model_device = NoDevice
    /\ is_training = FALSE
    /\ callbacks = <<>>
    /\ last_logs = EmptyMap
    /\ verbose = TRUE
    /\ in_notebook = "None"
    /\ pc = "idle"
    /\ cbIdx = 1
    /\ current_epoch_num = 0
    /\ batch_num = 0
    /\ phase = EmptyMap
    /\ metrics = EmptyMap
    /\ history = EmptyMap
    /\ result = [returned |-> FALSE, history |-> EmptyMap]
    /\ model_mode = "train"
    /\ stdout = <<>>
    /\ trace = <<>>
    /\ received = <<>>
    /\ stopIdx = 0
    /\ exc = "none"
    /\ call = [num_epochs |-> 0, train_dl |-> NoData, val_dl |-> NoData,
               training_args |-> [num_epochs |-> 0, num_batches |-> 0],
               callbacks |-> <<>>, after |-> "idle"]

Init ==
    /\ env \in Envs
    /\ pending \in {<<a>> : a \in ArgSpace}
    /\ InitTrainer
    /\ files = NoFiles
    /\ io = NoIo

Next ==
    \/ Train
    \/ CallbackReturn
    \/ CallbackStop
    \/ CallbackRaise
    \/ AfterTrainBegin
    \/ AfterEpochBegin
    \/ AfterTrainBatchBegin
    \/ AfterTrainBatchEnd
    \/ AfterValidationBatchBegin
    \/ AfterValidationBatchEnd
    \/ AfterEpochEnd
    \/ AfterTrainEnd

Spec == Init /\ [][Next]_vars

-----------------------------------------------------------------------------
(* Two train() calls in a row on one Trainer, with every way of naming the *)
(* device: a str or a torch.device, with and without force_device, on a    *)
(* machine with and without cuda.                                           *)

MaxCallEpochs == 1

Devices == {StrArg("auto"), StrArg("cpu"), StrArg("cuda"), TorchDevice("cuda")}

CallArgs(ne, vd, vb, cbs, dev, force) ==
    [train_data |-> DataLoader(1), num_epochs |-> ne, verbose |-> vb, device |-> dev,
     force_device |-> force, val_data |-> vd, batch_size |-> BatchSize,
     callbacks |-> cbs, in_notebook |-> "None"]

CallSpace ==
    {CallArgs(ne, vd, c[1], c[2], dev, force) :
        ne \in 0..MaxCallEpochs, vd \in {NoData, DataLoader(MaxValBatches)},
        c \in {<<FALSE, <<"User">> >>, <<TRUE, <<>> >>},
        dev \in Devices, force \in BOOLEAN}

InitCalls ==
    /\ env \in [cuda : BOOLEAN, notebook : {FALSE}, seed : {0}, step : {0},
                metric_keys : {{}}]
    /\ pending \in {<<a, b>> : a \in CallSpace, b \in CallSpace}
    /\ InitTrainer
    /\ files = NoFiles
    /\ io = NoIo

SpecCalls == InitCalls /\ [][Next]_vars

-----------------------------------------------------------------------------
(* A History with finite float values, on a file system where each path is *)
(* absent or already holds the document of some History; to_json and       *)
(* from_json are called on it with every file name.                         *)

MaxEntries == 2

FloatValues == {Float(n, d) : n \in 1..MaxLoss, d \in 1..2}

RECURSIVE SeqsUpTo(_, _)
SeqsUpTo(S, n) ==
    IF n = 0 THEN {<<>>}
    ELSE LET shorter == SeqsUpTo(S, n - 1)
         IN  shorter \cup {Append(q, x) : q \in shorter, x \in S}

Histories ==
    UNION {[K -> SeqsUpTo(FloatValues, MaxEntries) \ {<<>>}] :
              K \in {{}, {"loss"}, {"loss", "val_loss"}}}

StoredHistories ==
    {EmptyMap, [k \in {"loss"} |-> <<Float(1, 1), Float(1, 2)>>]}

InitJson ==
    /\ env \in [cuda : {FALSE}, notebook : {FALSE}, seed : {0}, step : {0},
                metric_keys : {{}}]
    /\ pending = <<>>
    /\ InitTrainer
    /\ files \in [Paths -> {Absent} \cup {JsonDump(h) : h \in StoredHistories}]
    /\ io \in {[NoIo EXCEPT !.self = h] : h \in Histories}

NextJson == \E file_name \in FileNames : ToJson(file_name) \/ FromJson(file_name)

SpecJson == InitJson /\ [][NextJson]_vars

-----------------------------------------------------------------------------
(* What the claims speak of. *)

Started == pc # "idle"
NoStopNoRaise == stopIdx = 0 /\ exc = "none"

Count(ev) == Cardinality({i \in 1..Len(trace) : trace[i].ev = ev})

IsPrefix(s, t) == Len(s) <= Len(t) /\ \A i \in 1..Len(s) : s[i] = t[i]

(* an event without its metrics; train_begin and train_end belong to no epoch *)
Shape(x) ==
    <<x.ev, IF x.ev \in {"train_begin", "train_end"} THEN 0 ELSE x.epoch, x.batch>>

ShapeOf(tr) == [i \in 1..Len(tr) |-> Shape(tr[i])]

RECURSIVE ExpectedBatches(_, _, _)
ExpectedBatches(e, b, B) ==
    IF b >= B THEN <<>>
    ELSE << <<"train_batch_begin", e, b>>, <<"compute", e, b>>,
            <<"train_batch_end", e, b>> >> \o ExpectedBatches(e, b + 1, B)

RECURSIVE ExpectedEpochs(_, _, _)
ExpectedEpochs(e, N, B) ==
    IF e > N THEN <<>>
    ELSE << <<"epoch_begin", e, -1>> >> \o ExpectedBatches(e, 0, B)
            \o << <<"epoch_end", e, -1>> >> \o ExpectedEpochs(e + 1, N, B)

ExpectedRun(N, B) ==
    << <<"train_begin", 0, -1>> >> \o ExpectedEpochs(1, N, B) \o << <<"train_end", 0, -1>> >>

(* a step of the call in progress *)
EngineStep ==
    \/ CallbackReturn \/ CallbackStop \/ CallbackRaise
    \/ AfterTrainBegin \/ AfterEpochBegin \/ AfterTrainBatchBegin \/ AfterTrainBatchEnd
    \/ AfterValidationBatchBegin \/ AfterValidationBatchEnd \/ AfterEpochEnd
    \/ AfterTrainEnd

(* the guard of EngineStep: a callback is still to receive the hook, or the *)
(* dispatch is over and the engine has a continuation for that hook         *)
EngineHooks ==
    {"train_begin", "epoch_begin", "train_batch_begin", "train_batch_end",
     "validation_batch_begin", "validation_batch_end", "epoch_end", "train_end"}

CanStep == Delivering \/ (DispatchDone /\ pc \in EngineHooks)

(* the sum of the training losses of batches 0..b of epoch e *)
RECURSIVE LossSum(_, _)
LossSum(e, b) == IF b < 0 THEN 0 ELSE LossValue(e, b, TRUE).num + LossSum(e, b - 1)

(* the float v is the fraction total / n *)
IsMean(v, total, n) == v.t = "float" /\ v.num * n = total * v.den

-----------------------------------------------------------------------------
(* C1: without validation data, with num_epochs = N >= 1 and B >= 1       *)
(* training batches and no callback stopping or raising, the hooks          *)
(* dispatched are exactly train_begin, then per epoch e = 1..N epoch_begin, *)
(* per batch b = 0..B-1 train_batch_begin, the batch's forward, loss,       *)
(* backward and optimizer step, train_batch_end with the running metrics,   *)
(* then epoch_end with the epoch's metrics, and finally train_end: at every *)
(* moment what was dispatched is the beginning of that sequence, and at the *)
(* return it is the whole of it.                                            *)
C1_HookOrderNoValidation ==
    (/\ Started /\ NoStopNoRaise
     /\ call.val_dl.kind = "None" /\ call.num_epochs >= 1 /\ call.train_dl.n >= 1)
    => LET expected == ExpectedRun(call.num_epochs, call.train_dl.n)
       IN  /\ IsPrefix(ShapeOf(trace), expected)
           /\ pc = "returned" => ShapeOf(trace) = expected
           /\ \A i \in 1..Len(trace) :
                /\ trace[i].ev = "compute" =>
                     trace[i].ops = <<"predict", "compute_loss", "backward", "step",
                                      "zero_grad">>
                /\ trace[i].ev \in {"train_batch_end", "epoch_end"} =>
                     "loss" \in DOMAIN trace[i].logs

C1_Witness ==
    /\ pc = "returned" /\ NoStopNoRaise /\ Len(callbacks) >= 1
    /\ call.val_dl.kind = "None" /\ call.num_epochs >= 2 /\ call.train_dl.n >= 2

(* C2: when no callback raises, whichever hooks stop is requested in,      *)
(* train_begin is dispatched once and first, train_end at most once and     *)
(* last, the call goes on until it returns, and at the return train_end was *)
(* dispatched exactly once and a History is returned.                       *)
C2_TrainBeginFirstTrainEndLast ==
    (Started /\ exc = "none")
    => /\ trace[1].ev = "train_begin"
       /\ Count("train_begin") = 1
       /\ \A i \in 1..Len(trace) : trace[i].ev = "train_end" => i = Len(trace)
       /\ pc \in Hooks \cup {"returned"}
       /\ pc \in Hooks => CanStep
       /\ pc = "returned" =>
            /\ Count("train_end") = 1
            /\ result = [returned |-> TRUE, history |-> history]

C2_Witness ==
    /\ pc = "returned" /\ exc = "none" /\ stopIdx > 0
    /\ trace[stopIdx].ev = "validation_batch_end"
    /\ Len(callbacks) >= 2

(* C3: when stop is first requested during train_batch_end of batch b of   *)
(* epoch e, the returned History has exactly e entries under "loss":        *)
(* entries 1..e-1 are the means of all the batch losses of their epochs,    *)
(* entry e is the mean of the losses of batches 0..b of epoch e, and        *)
(* train_end was dispatched exactly once.                                   *)
C3_StopInTrainBatchEnd ==
    (pc = "returned" /\ stopIdx > 0 /\ trace[stopIdx].ev = "train_batch_end")
    => LET e == trace[stopIdx].epoch
           b == trace[stopIdx].batch
           B == call.train_dl.n
           h == result.history
       IN  /\ "loss" \in DOMAIN h
           /\ Len(h["loss"]) = e
           /\ \A j \in 1..(e - 1) : IsMean(h["loss"][j], LossSum(j, B - 1), B)
           /\ IsMean(h["loss"][e], LossSum(e, b), b + 1)
           /\ Count("train_end") = 1

C3_Witness ==
    /\ pc = "returned" /\ stopIdx > 0 /\ trace[stopIdx].ev = "train_batch_end"
    /\ trace[stopIdx].epoch = 2 /\ trace[stopIdx].epoch < call.num_epochs
    /\ trace[stopIdx].batch + 1 < call.train_dl.n
    /\ env.step = 1
    /\ result.history["loss"][1] # result.history["loss"][2]

(* C4, as claimed: once stop was requested in a hook, the only hook        *)
(* dispatched after that hook is train_end.                                 *)
C4_OnlyTrainEndAfterStop ==
    stopIdx > 0 =>
        \A i \in (stopIdx + 1)..Len(trace) :
            trace[i].ev \in Hooks => trace[i].ev = "train_end"

(* what is still dispatched after a stop requested in the hook s *)
AfterStop(s) ==
    LET tail == << <<"epoch_end", s.epoch, -1>>, <<"train_end", 0, -1>> >>
    IN  CASE s.ev \in {"train_batch_begin", "train_batch_end"} ->
               (IF call.val_dl.kind # "None" /\ call.val_dl.n >= 1
                THEN << <<"validation_batch_begin", s.epoch, 0>> >> ELSE <<>>) \o tail
          [] s.ev \in {"validation_batch_begin", "validation_batch_end"} -> tail
          [] s.ev = "train_end" -> <<>>
          [] OTHER -> << <<"train_end", 0, -1>> >>

(* C4, amended: once stop was requested in a hook, no further batch is     *)
(* computed and no epoch_begin, train_batch_begin, train_batch_end or       *)
(* validation_batch_end is dispatched; what is still dispatched is, in this *)
(* order: validation_batch_begin(0) when the stop came in a train-batch     *)
(* hook and there is validation data with a batch, the epoch_end of the     *)
(* current epoch when the stop came in a batch hook, and train_end.         *)
C4_AfterStopOnlyEpochTail ==
    stopIdx > 0 =>
        LET rest == ShapeOf(SubSeq(trace, stopIdx + 1, Len(trace)))
        IN  /\ IsPrefix(rest, AfterStop(trace[stopIdx]))
            /\ pc = "returned" => rest = AfterStop(trace[stopIdx])

C4_Witness ==
    /\ pc = "returned" /\ stopIdx > 0
    /\ trace[stopIdx].ev = "train_batch_end"
    /\ Len(trace) = stopIdx + 3
    /\ trace[stopIdx + 1].ev = "validation_batch_begin"
    /\ trace[stopIdx + 2].ev = "epoch_end"

(* C5: with validation data, in every epoch that reaches its validation    *)
(* phase validation_begin is dispatched before the first                    *)
(* validation_batch_begin, validation_end after the last                    *)
(* validation_batch_end and before epoch_end, and the validation hooks of   *)
(* an epoch come after its train-batch hooks.                               *)
C5_ValidationBeginAndEnd ==
    \A i \in 1..Len(trace) :
        /\ trace[i].ev = "validation_batch_begin" =>
             \E j \in 1..(i - 1) :
                 trace[j].ev = "validation_begin" /\ trace[j].epoch = trace[i].epoch
        /\ trace[i].ev = "validation_batch_end" /\ pc = "returned" =>
             \E j \in (i + 1)..Len(trace) :
                 trace[j].ev = "validation_end" /\ trace[j].epoch = trace[i].epoch
        /\ trace[i].ev \in {"validation_begin", "validation_batch_begin",
                            "validation_batch_end", "validation_end"} =>
             \A j \in 1..Len(trace) :
                 (trace[j].ev \in {"train_batch_begin", "train_batch_end"}
                    /\ trace[j].epoch = trace[i].epoch) => j < i

(* C6: with num_epochs <= 0 the hooks dispatched are train_begin and then  *)
(* train_end, once each, no batch is processed, and the History returned    *)
(* has no keys.                                                             *)
C6_NoEpochs ==
    (Started /\ call.num_epochs <= 0)
    => /\ IsPrefix(ShapeOf(trace), << <<"train_begin", 0, -1>>, <<"train_end", 0, -1>> >>)
       /\ DOMAIN history = {}
       /\ pc = "returned" =>
            /\ ShapeOf(trace) = << <<"train_begin", 0, -1>>, <<"train_end", 0, -1>> >>
            /\ result.returned /\ DOMAIN result.history = {}

C6_Witness ==
    /\ pc = "returned" /\ call.num_epochs = 0 /\ call.train_dl.n >= 1
    /\ Len(callbacks) >= 1 /\ Len(trace) = 2

(* every key a validation phase records starts with "val_", the loss being *)
(* "val_loss"; a key of the History comes from a training phase or starts   *)
(* with "val_"                                                              *)
ValidationKeysPrefixed ==
    /\ \A i \in 1..Len(trace) :
         trace[i].ev = "validation_batch_end" =>
             /\ "val_loss" \in DOMAIN trace[i].logs
             /\ \A k \in DOMAIN trace[i].logs : StartsWithVal(k)
    /\ (Started /\ model_mode = "eval") => \A k \in DOMAIN phase : StartsWithVal(k)
    /\ \A k \in DOMAIN history :
         \/ StartsWithVal(k)
         \/ \E i \in 1..Len(trace) :
                trace[i].ev = "train_batch_end" /\ k \in DOMAIN trace[i].logs

(* no key starting with "val_" in the History nor in what epoch_end and    *)
(* train_end receive                                                        *)
NoValKeys ==
    /\ \A k \in DOMAIN history : ~StartsWithVal(k)
    /\ \A k \in DOMAIN result.history : ~StartsWithVal(k)
    /\ \A i \in 1..Len(trace) :
         trace[i].ev \in {"epoch_end", "train_end"} =>
             \A k \in DOMAIN trace[i].logs : ~StartsWithVal(k)

OnePerEpoch ==
    (/\ Started /\ NoStopNoRaise /\ call.num_epochs >= 1 /\ call.train_dl.n >= 1)
    => LET B == call.train_dl.n
       IN  /\ "loss" \in DOMAIN history => 
                \A j \in 1..Len(history["loss"]) :
                    IsMean(history["loss"][j], LossSum(j, B - 1), B)
           /\ \A k \in DOMAIN history : \A j \in 1..Len(history[k]) :
                  history[k][j].t = "float"
           /\ pc = "epoch_end" =>
                /\ "loss" \in DOMAIN history
                /\ \A k \in DOMAIN history : Len(history[k]) = current_epoch_num
           /\ pc = "returned" =>
                /\ Len(result.history["loss"]) = call.num_epochs
                /\ env.step = 0 =>
                     /\ \A j \in 1..call.num_epochs :
                            result.history["loss"][j] = Float(1 + env.seed, 1)
                     /\ Average(result.history)["loss"] = Float(1 + env.seed, 1)

(* a step of a run keeps every key and every entry of the History *)
AppendOnly ==
    pc \in Hooks =>
        \A k \in DOMAIN history :
            k \in DOMAIN history' /\ IsPrefix(history[k], history'[k])

(* C8: without a stop request, with N >= 1 epochs and B >= 1 training      *)
(* batches, the History grows by one entry per key per epoch: while         *)
(* epoch_end(e) is dispatched every key has exactly e entries, every entry  *)
(* is a float, entry j of "loss" is the mean of the B batch losses of epoch *)
(* j, the History returned has N entries under "loss", with constant losses *)
(* every entry and the average of "loss" are that constant; and no step of  *)
(* a run changes or removes an entry or a key already recorded.             *)
C8_AppendOnlyOnePerEpoch == [](OnePerEpoch) /\ [][AppendOnly]_vars

C8_Witness ==
    /\ pc = "returned" /\ NoStopNoRaise
    /\ call.num_epochs = 2 /\ call.train_dl.n = 2 /\ call.val_dl.kind = "None"
    /\ env.step = 0 /\ env.seed = 0
    /\ result.history["loss"] = <<Float(1, 1), Float(1, 1)>>
    /\ Average(result.history)["loss"] = Float(1, 1)

(* the metrics of the newest epoch_end of the run, none dispatched: empty  *)
LastEpochEndLogs ==
    LET ends == {i \in 1..Len(trace) : trace[i].ev = "epoch_end"}
    IN  IF ends = {} THEN EmptyMap
        ELSE trace[CHOOSE i \in ends : \A j \in ends : j <= i].logs

(* C9, as claimed: train_end receives, for every key of the History        *)
(* returned, that key with the key's last entry, and an empty mapping when  *)
(* the History is empty.                                                    *)
C9_TrainEndHasEveryHistoryKey ==
    pc = "returned" =>
        LET logs == trace[Len(trace)].logs
        IN  /\ \A k \in DOMAIN result.history :
                 /\ k \in DOMAIN logs
                 /\ logs[k] = result.history[k][Len(result.history[k])]
            /\ DOMAIN result.history = {} => DOMAIN logs = {}

(* C9, amended: however the first train() call on a trainer ends,          *)
(* train_end receives the metrics of the newest epoch_end of the run (an    *)
(* empty mapping when there was none, or when the History is empty): every  *)
(* key of that mapping is a key of the History with the key's last entry as *)
(* its value; a key of the History that the last epoch did not record is    *)
(* not in it.                                                               *)
C9_TrainEndHasLastEpochEndLogs ==
    \A i \in 1..Len(trace) :
        trace[i].ev = "train_end" =>
            LET logs == trace[i].logs
            IN  /\ logs = LastEpochEndLogs
                /\ \A k \in DOMAIN logs :
                     /\ k \in DOMAIN history
                     /\ logs[k] = history[k][Len(history[k])]
                /\ DOMAIN history = {} => DOMAIN logs = {}

C9_Witness ==
    /\ pc = "returned" /\ stopIdx > 0
    /\ trace[stopIdx].ev = "train_batch_end" /\ trace[stopIdx].epoch = 2
    /\ "val_loss" \in DOMAIN result.history
    /\ DOMAIN trace[Len(trace)].logs = {"loss"}

(* C10: when a callback raises inside a hook the exception leaves train(): *)
(* the callbacks registered after it have not received the hook, that hook  *)
(* is the last thing of the run (no batch, no hook, no train_end after it), *)
(* the call takes no further step and returns no History.                   *)
C10_CallbackErrorPropagates ==
    exc = "CallbackError" =>
        /\ pc = "raised"
        /\ ~result.returned
        /\ trace[Len(trace)].ev \in Hooks
        /\ trace[Len(trace)].ev # "train_end" => Count("train_end") = 0
        /\ cbIdx <= Len(callbacks)
        /\ received = [i \in 1..cbIdx |-> i]
        /\ ~CanStep

C10_Witness ==
    /\ exc = "CallbackError" /\ Len(callbacks) >= 2 /\ cbIdx = 1
    /\ trace[Len(trace)].ev = "train_batch_end"

-----------------------------------------------------------------------------
(* the lines of stdout that carry the message m *)
Lines(out, m) == Cardinality({i \in 1..Len(out) : out[i].message = m})

(* the step that makes the next train() call *)
CallMade == pending' # pending

(* C11: a train() call with an explicit device whose string form is not    *)
(* that of the resolved device fails, under force_device, with a            *)
(* RuntimeError and without any effect (device, model, callbacks, stop      *)
(* flag, output and hooks as before); without force_device it logs one      *)
(* fallback line, no "Using" line, and the run starts on the resolved       *)
(* device.  A call with device "auto" never fails on the device.            *)
C11_DeviceResolution ==
    [][CallMade =>
        LET a == Head(pending)
            resolved == FindSuitableDevice(a.device)
            differs == Str(a.device) # "auto" /\ Str(resolved) # Str(a.device)
        IN  /\ (differs /\ a.force_device) =>
                /\ pc' = "raised" /\ exc' = "RuntimeError"
                /\ UNCHANGED <<device, model_device, callbacks, is_training, stdout,
                               trace, received, verbose, in_notebook, last_logs>>
            /\ (differs /\ ~a.force_device) =>
                /\ pc' = "train_begin" /\ exc' = "none"
                /\ device' = resolved /\ model_device' = resolved
                /\ Lines(stdout', "not available, using")
                     = Lines(stdout, "not available, using") + 1
                /\ Lines(stdout', "Using") = Lines(stdout, "Using")
            /\ Str(a.device) = "auto" =>
                /\ pc' = "train_begin" /\ exc' = "none"
                /\ device' = resolved
    ]_vars

C11_Witness ==
    /\ pending = <<>> /\ pc = "raised" /\ exc = "RuntimeError"
    /\ Lines(stdout, "not available, using") = 1
    /\ callbacks # <<>> /\ device = TorchDevice("cpu")

-----------------------------------------------------------------------------
IsProgress(kind) == kind = "Tqdm"

NotProgress(kind) == ~IsProgress(kind)

ProgressCount == Cardinality({i \in 1..Len(callbacks) : IsProgress(callbacks[i].kind)})

(* C12: after the registration of the first train() call of a Trainer,     *)
(* with verbose the built-in progress callback is the first of the list and *)
(* the only one of its kind, the user's callbacks of that kind are skipped  *)
(* and the others follow once each, in the order supplied, with model,      *)
(* trainer and training_args set; without verbose the list is the user's    *)
(* callbacks and no progress callback is added.                             *)
C12_ProgressCallbackFirstAndOnly ==
    (pc \in Hooks \cup {"returned"} /\ call.after = "idle")
    => LET others == SelectSeq(call.callbacks, NotProgress)
       IN  /\ verbose =>
                /\ Len(callbacks) = 1 + Len(others)
                /\ IsProgress(callbacks[1].kind) /\ callbacks[1].wired
                /\ ProgressCount = 1
                /\ \A i \in 1..Len(others) : callbacks[i + 1] = UserCallback(others[i])
           /\ ~verbose =>
                /\ Len(callbacks) = Len(call.callbacks)
                /\ \A i \in 1..Len(callbacks) :
                     callbacks[i] = UserCallback(call.callbacks[i])

(* C13: in a train() call with verbose = false that does not fail, the      *)
(* trainer prints no message at any point (the line declaring the resolved  *)
(* device included) and adds no progress bar.                               *)
C13_SilentWhenNotVerbose ==
    (pc \in Hooks \cup {"returned"} /\ call.after = "idle" /\ ~verbose)
    => /\ stdout = <<>>
       /\ Len(callbacks) = Len(call.callbacks)

-----------------------------------------------------------------------------
(* C14: saving a History of finite floats with to_json(name) succeeds,     *)
(* leaves the History as it was and a file that loads to the same mapping,  *)
(* and from_json(name) after the save succeeds and yields a History with    *)
(* the same keys and the same sequence of values under every key.           *)
C14_SaveThenLoadRoundTrip ==
    /\ io.op = "to_json" =>
          /\ io.exc = "none"
          /\ files[AddExt(io.name, "json")].kind = "json"
          /\ JsonLoad(files[AddExt(io.name, "json")]) = io.self
    /\ (io.op = "from_json" /\ io.saved = AddExt(io.name, "json")) =>
          /\ io.exc = "none"
          /\ io.loaded = io.self

-----------------------------------------------------------------------------
EventsOf(ev) == {i \in 1..Len(trace) : trace[i].ev = ev}

(* C15 as stated: with no training batch and num_epochs >= 1 the call does *)
(* not get past the training phase of its first epoch (no validation, no    *)
(* epoch_end) and does not return unless stop was requested before it.      *)
C15_ZeroBatchesDivisionByZero ==
    (Started /\ call.train_dl.n = 0 /\ call.num_epochs >= 1)
    => /\ Count("validation_batch_begin") = 0
       /\ Count("epoch_end") = 0
       /\ pc = "returned" => stopIdx \in {1, 2}

(* C15, amended: with no training batch nothing is divided: every key of a *)
(* phase has at least one value, no train-batch hook is dispatched, each    *)
(* epoch_end receives validation metrics only (none without validation     *)
(* data), the History gets no "loss" key, and without stop or raise the     *)
(* call returns after num_epochs epochs.                                    *)
C15_ZeroBatchesEmptyAverage ==
    /\ \A k \in DOMAIN phase : Len(phase[k]) >= 1
    /\ (Started /\ call.train_dl.n = 0) =>
          /\ exc \in {"none", "CallbackError"}
          /\ Count("train_batch_begin") = 0 /\ Count("train_batch_end") = 0
          /\ \A i \in EventsOf("epoch_end") :
                /\ \A k \in DOMAIN trace[i].logs : StartsWithVal(k)
                /\ call.val_dl.n = 0 => trace[i].logs = EmptyMap
          /\ \A k \in DOMAIN history : StartsWithVal(k)
          /\ (pc = "returned" /\ NoStopNoRaise /\ call.num_epochs >= 1) =>
                /\ Count("epoch_end") = call.num_epochs
                /\ result.history = history

C15_Witness ==
    /\ pc = "returned" /\ NoStopNoRaise
    /\ call.train_dl.n = 0 /\ call.num_epochs >= 2 /\ call.val_dl.n >= 1
    /\ Count("epoch_end") = call.num_epochs
    /\ DOMAIN result.history = {"val_loss"}
    /\ Len(result.history["val_loss"]) = call.num_epochs

-----------------------------------------------------------------------------
(* how many times the operation op runs in the computation of a batch *)
OpCount(ops, op) == Cardinality({j \in 1..Len(ops) : ops[j] = op})

SameBatch(x, y) == x.epoch = y.epoch /\ x.batch = y.batch

(* C16: (a) no batch is computed after a stop request; (b) a training      *)
(* batch whose train_batch_begin found the stop flag unset gets one forward *)
(* pass, one loss, one backward pass, one optimizer step and one gradient   *)
(* clear, all before its train_batch_end, and no batch is computed          *)
(* otherwise; (c) the batches of a validation phase get a forward pass and  *)
(* a loss, never a backward pass or an optimizer step.                      *)
C16_NoComputeAfterStopNorMidBatch ==
    /\ stopIdx > 0 => \A i \in EventsOf("compute") : i < stopIdx
    /\ \A i \in EventsOf("train_batch_begin") :
          (i < Len(trace) /\ (stopIdx = 0 \/ stopIdx > i)) =>
              /\ trace[i + 1].ev = "compute" /\ SameBatch(trace[i + 1], trace[i])
              /\ \A op \in {"predict", "compute_loss", "backward", "step", "zero_grad"} :
                    OpCount(trace[i + 1].ops, op) = 1
              /\ i + 2 <= Len(trace)
              /\ trace[i + 2].ev = "train_batch_end" /\ SameBatch(trace[i + 2], trace[i])
    /\ \A i \in EventsOf("compute") :
          /\ i > 1 /\ SameBatch(trace[i - 1], trace[i])
          /\ trace[i - 1].ev \in {"train_batch_begin", "validation_batch_begin"}
          /\ trace[i - 1].ev = "validation_batch_begin" =>
                /\ OpCount(trace[i].ops, "predict") = 1
                /\ OpCount(trace[i].ops, "compute_loss") = 1
                /\ \A op \in {"backward", "step", "zero_grad"} :
                      OpCount(trace[i].ops, op) = 0

C16_Witness ==
    /\ pc = "returned" /\ stopIdx > 0
    /\ trace[stopIdx].ev = "train_batch_begin" /\ trace[stopIdx].epoch = 2
    /\ \E i \in EventsOf("compute") : trace[i - 1].ev = "validation_batch_begin"
    /\ \E i \in EventsOf("compute") : trace[i - 1].ev = "train_batch_begin"

-----------------------------------------------------------------------------
(* the callbacks 1..n, in list order *)
UpTo(n) == [i \in 1..n |-> i]

(* during a dispatch the callbacks before cbIdx have received the hook,    *)
(* once each and in list order                                              *)
DeliveredInOrder ==
    pc \in Hooks => /\ cbIdx <= Len(callbacks) + 1
                    /\ received = UpTo(cbIdx - 1)

(* the engine goes on (dispatches the next hook, computes a batch or       *)
(* returns) only when every callback of the list has received the hook      *)
GoesOnAfterAll ==
    (pc \in Hooks /\ (trace' # trace \/ pc' = "returned"))
    => received = UpTo(Len(callbacks))

(* a callback's stop request changes the flag alone: the same hook, with   *)
(* the same arguments, goes to the next callback                            *)
StopKeepsDispatching ==
    (Delivering /\ is_training /\ ~is_training')
    => /\ pc' = pc /\ trace' = trace /\ callbacks' = callbacks
       /\ cbIdx' = cbIdx + 1
       /\ received' = UpTo(cbIdx)

(* C17: every dispatched hook goes to every registered callback once, in   *)
(* registration order, before the engine looks at the stop flag: when a     *)
(* callback requests stop the callbacks after it still receive that hook,   *)
(* and the engine acts on the request only when the dispatch is over.       *)
C17_DispatchToAllBeforeStopCheck ==
    /\ []DeliveredInOrder
    /\ [][GoesOnAfterAll /\ StopKeepsDispatching]_vars

C17_Witness ==
    /\ pc = "train_batch_end" /\ Len(callbacks) = 2
    /\ stopIdx = Len(trace) /\ ~is_training
    /\ received = <<1, 2>> /\ cbIdx = 3

-----------------------------------------------------------------------------
(* the sums, over the batches 0..b of epoch e, of the validation losses    *)
(* and of the values eval_metrics returns under the key k                   *)
RECURSIVE ValLossSum(_, _)
ValLossSum(e, b) == IF b < 0 THEN 0 ELSE LossValue(e, b, FALSE).num + ValLossSum(e, b - 1)

RECURSIVE MetricSum(_, _, _)
MetricSum(e, b, k) ==
    IF b < 0 THEN 0 ELSE EvalMetrics(e, b).map[k].num + MetricSum(e, b - 1, k)

(* C18: the mapping train_batch_end(b, .) receives in epoch e has the keys *)
(* of the batch metrics and "loss", and under each key the mean of the      *)
(* values of the batches 0..b of that epoch's training phase alone, so      *)
(* train_batch_end(0, .) carries the first batch's loss; likewise           *)
(* validation_batch_end with the validation batches of the epoch, under     *)
(* the val_ keys.                                                           *)
C18_RunningMeanOfCurrentPhase ==
    /\ \A i \in EventsOf("train_batch_end") :
          LET e == trace[i].epoch
              b == trace[i].batch
              logs == trace[i].logs
          IN  /\ DOMAIN logs = env.metric_keys \cup {"loss"}
              /\ IsMean(logs["loss"], LossSum(e, b), b + 1)
              /\ b = 0 => logs["loss"] = LossValue(e, 0, TRUE)
              /\ \A k \in env.metric_keys \ {"loss"} :
                    IsMean(logs[k], MetricSum(e, b, k), b + 1)
    /\ \A i \in EventsOf("validation_batch_end") :
          LET e == trace[i].epoch
              b == trace[i].batch
              logs == trace[i].logs
          IN  /\ DOMAIN logs = {ValKey(k) : k \in env.metric_keys} \cup {"val_loss"}
              /\ IsMean(logs["val_loss"], ValLossSum(e, b), b + 1)
              /\ \A k \in env.metric_keys \ {"loss"} :
                    IsMean(logs[ValKey(k)], MetricSum(e, b, k), b + 1)

C18_Witness ==
    /\ Count("validation_batch_end") >= 1 /\ env.metric_keys = {"acc"}
    /\ \E i, j \in EventsOf("train_batch_end") :
          /\ trace[i].epoch = 1 /\ trace[i].batch = 1
          /\ trace[j].epoch = 2 /\ trace[j].batch = 0
          /\ trace[j].logs["loss"] # trace[i].logs["loss"]
          /\ trace[j].logs["loss"] = LossValue(2, 0, TRUE)

-----------------------------------------------------------------------------
(* C19: a second train() call on a Trainer whose first call returned       *)
(* starts from scratch: its hooks go to the callbacks supplied to it (and   *)
(* to at most one progress callback) and to no callback of the first call,  *)
(* and with num_epochs <= 0 its train_end receives an empty mapping.        *)
C19_SecondCallFromScratch ==
    (pending = <<>> /\ call.after = "returned" /\ pc \in Hooks \cup {"returned"})
    => /\ ProgressCount <= 1
       /\ Len(callbacks) = Len(call.callbacks) + (IF verbose THEN 1 ELSE 0)
       /\ \A i \in EventsOf("train_end") :
             call.num_epochs <= 0 => trace[i].logs = EmptyMap

-----------------------------------------------------------------------------
(* C20: the stop flag is_training is true only while a train() call is in  *)
(* its loop, from the dispatch of train_begin until a stop request or the   *)
(* exit of the loop: it is false before the first call, during the dispatch *)
(* of train_end, after the return, and after an exception ended the call.   *)
C20_IsTrainingOnlyInsideLoop ==
    /\ pc \in {"idle", "train_end", "returned", "raised"} => ~is_training
    /\ (pc \in Hooks \ {"train_end"} /\ stopIdx = 0) => is_training
    /\ stopIdx > 0 => ~is_training
====
